---------------------------- MODULE Spec2Model ----------------------------
(***************************************************************************)
(* Model of the invoice pipeline of gmail-invoice-automation:              *)
(*   SimpleRPA.extract_invoice_data   (src/main.py 51-156)                 *)
(*   SimpleRPA.process_invoices       (src/main.py 158-219)                *)
(*   SimpleRPA.download_invoices_from_gmail (src/main.py 33-49)            *)
(*                                                                         *)
(* Text is modelled character by character: a Python str is a sequence of  *)
(* one-character strings, so that split, strip, lower, the substring test  *)
(* and the currency regular expression are computed as Python computes     *)
(* them.  A Python value is a tagged record (None, str, float, int).       *)
(* A float is kept as an exact decimal m * 10^(-e); binary rounding error  *)
(* of the float type is not modelled.                                      *)
(***************************************************************************)
EXTENDS Integers, Sequences, FiniteSets, TLC

(***************************************************************************)
(* Bounds of the model.                                                    *)
(***************************************************************************)
\* lines of text in a generated document
MaxLines == 2
\* documents handed over by the mail step in one run
MaxFiles == 3

(***************************************************************************)
(* State.                                                                  *)
(***************************************************************************)
VARIABLES
    pc,                 \* where the run is
    downloaded_files,   \* process_invoices: the list from the mail step
    pdf_file,           \* the document of the current extract_invoice_data call
    invoice_data,       \* what that call returned
    raised,             \* whether a call raised to its caller
    extracted,          \* the records returned so far, one per document processed
    invoice_data_list,  \* process_invoices: the records kept for the report
    report,             \* the workbook written, or None
    result,             \* what download_invoices gave its caller, or None
    mail,               \* download_invoices: the IMAP connection
    email_ids,          \* download_invoices: how many invoice emails were found
    exc                 \* download_invoices: an exception reached its try statement

\* the state of the mail step
mailvars == << mail, email_ids, exc >>

vars == << pc, downloaded_files, pdf_file, invoice_data, raised, extracted,
           invoice_data_list, report, result, mail, email_ids, exc >>

(***************************************************************************)
(* Python values.                                                          *)
(***************************************************************************)
PyNone == [t |-> "None"]
PyStr(s) == [t |-> "str", v |-> s]
PyInt(n) == [t |-> "int", v |-> n]
\* the float m * 10^(-e); kept normalised by Norm below
PyFloat(m, e) == [t |-> "float", m |-> m, e |-> e]

\* Python truthiness of a value, as used by `if x` and `a or b`
Truthy(x) ==
    CASE x.t = "None"  -> FALSE
      [] x.t = "str"   -> Len(x.v) > 0
      [] x.t = "int"   -> x.v # 0
      [] x.t = "float" -> x.m # 0

(***************************************************************************)
(* Characters.                                                             *)
(***************************************************************************)
UpperLetters == <<"A","B","C","D","E","F","G","H","I","J","K","L","M","N","O","P","Q","R","S","T","U","V","W","X","Y","Z">>
LowerLetters == <<"a","b","c","d","e","f","g","h","i","j","k","l","m","n","o","p","q","r","s","t","u","v","w","x","y","z">>
DigitChars == <<"0","1","2","3","4","5","6","7","8","9">>
\* the characters str.strip() removes (the ASCII ones that can occur in a line)
Whitespace == {" ", "\t", "\r", "\f"}

IsDigit(c) == \E i \in 1..Len(DigitChars) : DigitChars[i] = c
DigitVal(c) == (CHOOSE i \in 1..Len(DigitChars) : DigitChars[i] = c) - 1
\* a character of the class [\d,] of the amount pattern
IsAmountChar(c) == IsDigit(c) \/ c = ","

LowerChar(c) ==
    IF \E i \in 1..Len(UpperLetters) : UpperLetters[i] = c
    THEN LowerLetters[CHOOSE i \in 1..Len(UpperLetters) : UpperLetters[i] = c]
    ELSE c

(***************************************************************************)
(* str operations.                                                         *)
(***************************************************************************)
\* s.lower()
Lower(s) == [i \in 1..Len(s) |-> LowerChar(s[i])]

\* sub occurs in s starting at position i
OccursAt(s, sub, i) ==
    /\ i + Len(sub) - 1 <= Len(s)
    /\ \A k \in 1..Len(sub) : s[i + k - 1] = sub[k]

\* sub in s
Contains(s, sub) == \E i \in 1..(Len(s) - Len(sub) + 1) : OccursAt(s, sub, i)

\* s.strip()
Strip(s) ==
    LET keep == {i \in 1..Len(s) : s[i] \notin Whitespace}
    IN  IF keep = {} THEN << >>
        ELSE LET lo == CHOOSE i \in keep : \A j \in keep : i <= j
                 hi == CHOOSE i \in keep : \A j \in keep : j <= i
             IN  SubSeq(s, lo, hi)

\* s.split(c) for a one-character separator c: always at least one part
RECURSIVE Split(_, _)
Split(s, c) ==
    IF \A i \in 1..Len(s) : s[i] # c THEN << s >>
    ELSE LET k == CHOOSE i \in 1..Len(s) : s[i] = c /\ \A j \in 1..(i - 1) : s[j] # c
         IN  << SubSeq(s, 1, k - 1) >> \o Split(SubSeq(s, k + 1, Len(s)), c)

\* s.replace(c, "") for a one-character c
Remove(s, c) == SelectSeq(s, LAMBDA x : x # c)

\* the parts joined by the separator c:  c.join(parts)
RECURSIVE Join(_, _)
Join(parts, c) ==
    IF Len(parts) = 0 THEN << >>
    ELSE IF Len(parts) = 1 THEN parts[1]
    ELSE parts[1] \o << c >> \o Join(Tail(parts), c)

(***************************************************************************)
(* Floats, as exact decimals.                                              *)
(***************************************************************************)
RECURSIVE Pow10(_)
Pow10(n) == IF n <= 0 THEN 1 ELSE 10 * Pow10(n - 1)

\* the canonical form of m * 10^(-e): no trailing zero in the fraction
RECURSIVE Norm(_, _)
Norm(m, e) ==
    IF e > 0 /\ m % 10 = 0 THEN Norm(m \div 10, e - 1) ELSE PyFloat(m, e)

\* a + b for two floats
FloatAdd(a, b) ==
    LET e == IF a.e >= b.e THEN a.e ELSE b.e
    IN  Norm(a.m * Pow10(e - a.e) + b.m * Pow10(e - b.e), e)

\* the integer written by a sequence of digits (0 for the empty sequence)
RECURSIVE DigitsValue(_)
DigitsValue(ds) ==
    IF Len(ds) = 0 THEN 0
    ELSE 10 * DigitsValue(SubSeq(ds, 1, Len(ds) - 1)) + DigitVal(ds[Len(ds)])

\* what float(s) raises on text it cannot read
ValueError == [t |-> "ValueError"]

\* float(s) for s made of the characters the amount pattern lets through
\* (digits and "."): a number needs a digit and at most one "."; anything
\* else raises ValueError.
ParseFloat(s) ==
    LET dots == {i \in 1..Len(s) : s[i] = "."}
        digs == {i \in 1..Len(s) : IsDigit(s[i])}
    IN  IF digs = {} \/ Cardinality(dots) > 1
           \/ \E i \in 1..Len(s) : ~IsDigit(s[i]) /\ s[i] # "."
        THEN ValueError
        ELSE IF dots = {} THEN Norm(DigitsValue(s), 0)
        ELSE LET d == CHOOSE i \in dots : TRUE
             IN  Norm(DigitsValue(Remove(s, ".")), Len(s) - d)

(***************************************************************************)
(* re.findall over the amount pattern of line 106 (a "$", then a group:    *)
(* one or more of digit or comma, an optional ".", any number of digits):  *)
(* the captured groups of the leftmost non-overlapping matches, in order.  *)
(* Every part after the first run is optional and greedy, so a match       *)
(* starts at a "$" followed by a digit or comma and runs as far as it can. *)
(***************************************************************************)
\* the last index of the longest run of digits and commas that starts at i
\* (i - 1 when the run is empty)
AmountRunEnd(s, i) ==
    CHOOSE j \in (i - 1)..Len(s) :
        /\ \A k \in i..j : IsAmountChar(s[k])
        /\ (j = Len(s) \/ ~IsAmountChar(s[j + 1]))

\* the same for a run of digits
DigitRunEnd(s, i) ==
    CHOOSE j \in (i - 1)..Len(s) :
        /\ \A k \in i..j : IsDigit(s[k])
        /\ (j = Len(s) \/ ~IsDigit(s[j + 1]))

RECURSIVE FindAmountsFrom(_, _)
FindAmountsFrom(s, i) ==
    IF i > Len(s) THEN << >>
    ELSE IF s[i] = "$" /\ i + 1 <= Len(s) /\ IsAmountChar(s[i + 1])
    THEN LET a == AmountRunEnd(s, i + 1)
             b == IF a + 1 <= Len(s) /\ s[a + 1] = "." THEN a + 1 ELSE a
             c == DigitRunEnd(s, b + 1)
         IN  << SubSeq(s, i + 1, c) >> \o FindAmountsFrom(s, c + 1)
    ELSE FindAmountsFrom(s, i + 1)

FindAmounts(line) == FindAmountsFrom(line, 1)

(***************************************************************************)
(* f"${x:,.2f}": two decimals (ties to even), thousands separators.        *)
(***************************************************************************)
\* x rounded to a whole number of hundredths
RoundCents(x) ==
    IF x.e <= 2 THEN x.m * Pow10(2 - x.e)
    ELSE LET unit == Pow10(x.e - 2)
             q == x.m \div unit
             r == x.m % unit
         IN  IF 2 * r > unit THEN q + 1
             ELSE IF 2 * r < unit THEN q
             ELSE IF q % 2 = 0 THEN q ELSE q + 1

\* the decimal digits of n >= 0
RECURSIVE IntDigits(_)
IntDigits(n) ==
    IF n < 10 THEN << DigitChars[n + 1] >>
    ELSE IntDigits(n \div 10) \o << DigitChars[(n % 10) + 1] >>

\* a comma before every group of three digits, counted from the right
RECURSIVE GroupThousands(_)
GroupThousands(ds) ==
    IF Len(ds) <= 3 THEN ds
    ELSE GroupThousands(SubSeq(ds, 1, Len(ds) - 3)) \o << "," >>
         \o SubSeq(ds, Len(ds) - 2, Len(ds))

FormatCurrency(x) ==
    LET cents == RoundCents(x)
        frac  == cents % 100
    IN  << "$" >> \o GroupThousands(IntDigits(cents \div 100)) \o << "." >>
        \o << DigitChars[(frac \div 10) + 1], DigitChars[(frac % 10) + 1] >>

(***************************************************************************)
(* extract_invoice_data: the field rules (src/main.py 78-141).             *)
(***************************************************************************)
LabelInvoiceNumber == <<"I","n","v","o","i","c","e"," ","N","u","m","b","e","r",":">>
LabelInvoiceDate == <<"I","n","v","o","i","c","e"," ","D","a","t","e",":">>
LabelDueDate == <<"D","u","e"," ","D","a","t","e",":">>
LabelPaymentStatus == <<"P","a","y","m","e","n","t"," ","S","t","a","t","u","s",":">>
WordUnpaid == <<"u","n","p","a","i","d">>
WordPaid == <<"p","a","i","d">>
StatusUnpaid == <<"U","n","p","a","i","d">>
StatusPaid == <<"P","a","i","d">>

\* skip_keywords, line 90
skip_keywords ==
    << <<"i","n","v","o","i","c","e">>,
       <<"b","i","l","l">>,
       <<"d","a","t","e">>,
       <<"p","h","o","n","e">>,
       <<"e","m","a","i","l">>,
       <<"a","d","d","r","e","s","s">>,
       <<"d","e","s","c","r","i","p","t","i","o","n">>,
       <<"q","t","y">>,
       <<"u","n","i","t">>,
       <<"t","o","t","a","l">>,
       <<"p","l","e","a","s","e">>,
       <<"s","h","a","r","e">>,
       <<"f","o","r","m">>,
       <<"w","i","t","h","i","n">>,
       <<"h","o","u","r","s">>,
       <<"r","e","c","e","n","t">>,
       <<"i","n","f","u","s","i","o","n">> >>

\* The loop shared by the three plain labelled fields (lines 79-84, 96-101,
\* 116-121): the first line containing the label decides; its value is
\* parts[1] of line.split(':'), stripped.
RECURSIVE LabelledValue(_, _)
LabelledValue(lines, label) ==
    IF Len(lines) = 0 THEN PyNone
    ELSE LET line  == Head(lines)
             parts == Split(line, ":")
         IN  IF Contains(line, label) /\ Len(parts) > 1
             THEN PyStr(Strip(parts[2]))
             ELSE LabelledValue(Tail(lines), label)

InvoiceNumber(lines) == LabelledValue(lines, LabelInvoiceNumber)

InvoiceDate(lines) == LabelledValue(lines, LabelInvoiceDate)

DueDate(lines) == LabelledValue(lines, LabelDueDate)

\* HasSkipKeyword without the lowercasing of the line
HasSkipKeywordCaseSensitive(line) ==
    \E i \in 1..Len(skip_keywords) : Contains(line, skip_keywords[i])

\* any(keyword in line.lower() for keyword in skip_keywords)
HasSkipKeyword(line) ==
    \E i \in 1..Len(skip_keywords) : Contains(Lower(line), skip_keywords[i])

\* lines 87-93
RECURSIVE VendorName(_)
VendorName(lines) ==
    IF Len(lines) = 0 THEN PyNone
    ELSE LET line == Strip(Head(lines))
         IN  IF Len(line) > 0 /\ Len(line) > 3 /\ ~HasSkipKeyword(line)
             THEN PyStr(line)
             ELSE VendorName(Tail(lines))

\* InvoiceAmount with the first match of the line parsed instead of the last
RECURSIVE InvoiceAmountFirstMatch(_)
InvoiceAmountFirstMatch(lines) ==
    IF Len(lines) = 0 THEN PyNone
    ELSE LET line    == Head(lines)
             amounts == FindAmounts(line)
         IN  IF Contains(line, << "$" >>) /\ Len(amounts) > 0
             THEN LET amount_str == Remove(amounts[1], ",")
                      parsed     == ParseFloat(amount_str)
                  IN  IF parsed = ValueError
                      THEN InvoiceAmountFirstMatch(Tail(lines))
                      ELSE parsed
             ELSE InvoiceAmountFirstMatch(Tail(lines))

\* lines 104-113: a ValueError of float() is caught and the scan goes on
RECURSIVE InvoiceAmount(_)
InvoiceAmount(lines) ==
    IF Len(lines) = 0 THEN PyNone
    ELSE LET line    == Head(lines)
             amounts == FindAmounts(line)
         IN  IF Contains(line, << "$" >>) /\ Len(amounts) > 0
             THEN LET amount_str == Remove(amounts[Len(amounts)], ",")
                      parsed     == ParseFloat(amount_str)
                  IN  IF parsed = ValueError
                      THEN InvoiceAmount(Tail(lines))
                      ELSE parsed
             ELSE InvoiceAmount(Tail(lines))

\* lines 131-136: the status written for the value of the label line
NormalizeStatus(status) ==
    IF Contains(Lower(status), WordUnpaid) THEN PyStr(StatusUnpaid)
    ELSE IF Contains(Lower(status), WordPaid) THEN PyStr(StatusPaid)
    ELSE PyStr(status)

\* lines 124-142; without a label line the field is (re)set to None
RECURSIVE PaymentStatus(_)
PaymentStatus(lines) ==
    IF Len(lines) = 0 THEN PyNone
    ELSE LET line  == Head(lines)
             parts == Split(line, ":")
         IN  IF Contains(line, LabelPaymentStatus) /\ Len(parts) > 1
             THEN NormalizeStatus(Strip(parts[2]))
             ELSE PaymentStatus(Tail(lines))

(***************************************************************************)
(* The texts documents are drawn from.  Each set exercises one field rule; *)
(* a generated document holds up to MaxLines lines of one set.  The        *)
(* comment above a text shows it between brackets, " | " for a line break. *)
(***************************************************************************)
\* lines around the label "Invoice Number:"
NumberLines ==
    {   \* [Invoice Number:]
      <<"I","n","v","o","i","c","e"," ","N","u","m","b","e","r",":">>,
      \* [Invoice Number: ]
      <<"I","n","v","o","i","c","e"," ","N","u","m","b","e","r",":"," ">>,
      \* [Invoice Number: INV-2024-001]
      <<"I","n","v","o","i","c","e"," ","N","u","m","b","e","r",":"," ","I","N","V","-","2","0","2","4","-","0","0","1">>,
      \* [Invoice Number: INV:7 ]
      <<"I","n","v","o","i","c","e"," ","N","u","m","b","e","r",":"," ","I","N","V",":","7"," ">>,
      \* [Ref: Invoice Number:]
      <<"R","e","f",":"," ","I","n","v","o","i","c","e"," ","N","u","m","b","e","r",":">>,
      \* [Ref: Invoice Number: ]
      <<"R","e","f",":"," ","I","n","v","o","i","c","e"," ","N","u","m","b","e","r",":"," ">>,
      \* [Ref: Invoice Number: INV-2024-001]
      <<"R","e","f",":"," ","I","n","v","o","i","c","e"," ","N","u","m","b","e","r",":"," ","I","N","V","-","2","0","2","4","-","0","0","1">>,
      \* [Ref: Invoice Number: INV:7 ]
      <<"R","e","f",":"," ","I","n","v","o","i","c","e"," ","N","u","m","b","e","r",":"," ","I","N","V",":","7"," ">>,
      \* [Acme Corp]
      <<"A","c","m","e"," ","C","o","r","p">> }

\* lines around the labels "Invoice Date:" and "Due Date:"
DateLines ==
    {   \* [Invoice Date:]
      <<"I","n","v","o","i","c","e"," ","D","a","t","e",":">>,
      \* [Invoice Date: 2024-01-15 ]
      <<"I","n","v","o","i","c","e"," ","D","a","t","e",":"," ","2","0","2","4","-","0","1","-","1","5"," ">>,
      \* [Invoice Date: 2024-01-15 10:30]
      <<"I","n","v","o","i","c","e"," ","D","a","t","e",":"," ","2","0","2","4","-","0","1","-","1","5"," ","1","0",":","3","0">>,
      \* [Due Date:]
      <<"D","u","e"," ","D","a","t","e",":">>,
      \* [Due Date: 2024-01-15 ]
      <<"D","u","e"," ","D","a","t","e",":"," ","2","0","2","4","-","0","1","-","1","5"," ">>,
      \* [Due Date: 2024-01-15 10:30]
      <<"D","u","e"," ","D","a","t","e",":"," ","2","0","2","4","-","0","1","-","1","5"," ","1","0",":","3","0">>,
      \* [Ref: Invoice Date:]
      <<"R","e","f",":"," ","I","n","v","o","i","c","e"," ","D","a","t","e",":">>,
      \* [Ref: Invoice Date: 2024-01-15 ]
      <<"R","e","f",":"," ","I","n","v","o","i","c","e"," ","D","a","t","e",":"," ","2","0","2","4","-","0","1","-","1","5"," ">>,
      \* [Ref: Invoice Date: 2024-01-15 10:30]
      <<"R","e","f",":"," ","I","n","v","o","i","c","e"," ","D","a","t","e",":"," ","2","0","2","4","-","0","1","-","1","5"," ","1","0",":","3","0">>,
      \* [Ref: Due Date:]
      <<"R","e","f",":"," ","D","u","e"," ","D","a","t","e",":">>,
      \* [Ref: Due Date: 2024-01-15 ]
      <<"R","e","f",":"," ","D","u","e"," ","D","a","t","e",":"," ","2","0","2","4","-","0","1","-","1","5"," ">>,
      \* [Ref: Due Date: 2024-01-15 10:30]
      <<"R","e","f",":"," ","D","u","e"," ","D","a","t","e",":"," ","2","0","2","4","-","0","1","-","1","5"," ","1","0",":","3","0">>,
      \* [Invoice Date: 2024-01-15 Due Date: 2024-02-15]
      <<"I","n","v","o","i","c","e"," ","D","a","t","e",":"," ","2","0","2","4","-","0","1","-","1","5"," ","D","u","e"," ","D","a","t","e",":"," ","2","0","2","4","-","0","2","-","1","5">> }

\* lines around the label "Payment Status:"
StatusLines ==
    {   \* [Payment Status:]
      <<"P","a","y","m","e","n","t"," ","S","t","a","t","u","s",":">>,
      \* [Payment Status: UNPAID]
      <<"P","a","y","m","e","n","t"," ","S","t","a","t","u","s",":"," ","U","N","P","A","I","D">>,
      \* [Payment Status: Paid in full]
      <<"P","a","y","m","e","n","t"," ","S","t","a","t","u","s",":"," ","P","a","i","d"," ","i","n"," ","f","u","l","l">>,
      \* [Payment Status: Pending ]
      <<"P","a","y","m","e","n","t"," ","S","t","a","t","u","s",":"," ","P","e","n","d","i","n","g"," ">>,
      \* [Payment Status: pending: unpaid]
      <<"P","a","y","m","e","n","t"," ","S","t","a","t","u","s",":"," ","p","e","n","d","i","n","g",":"," ","u","n","p","a","i","d">>,
      \* [Note: Payment Status:]
      <<"N","o","t","e",":"," ","P","a","y","m","e","n","t"," ","S","t","a","t","u","s",":">>,
      \* [Note: Payment Status: UNPAID]
      <<"N","o","t","e",":"," ","P","a","y","m","e","n","t"," ","S","t","a","t","u","s",":"," ","U","N","P","A","I","D">>,
      \* [Note: Payment Status: Paid in full]
      <<"N","o","t","e",":"," ","P","a","y","m","e","n","t"," ","S","t","a","t","u","s",":"," ","P","a","i","d"," ","i","n"," ","f","u","l","l">>,
      \* [Note: Payment Status: Pending ]
      <<"N","o","t","e",":"," ","P","a","y","m","e","n","t"," ","S","t","a","t","u","s",":"," ","P","e","n","d","i","n","g"," ">>,
      \* [Note: Payment Status: pending: unpaid]
      <<"N","o","t","e",":"," ","P","a","y","m","e","n","t"," ","S","t","a","t","u","s",":"," ","p","e","n","d","i","n","g",":"," ","u","n","p","a","i","d">>,
      \* [Status unknown]
      <<"S","t","a","t","u","s"," ","u","n","k","n","o","w","n">> }

\* lines with and without currency amounts
AmountLines ==
    {   \* [Total Due: $1,234.56 $999.00]
      <<"T","o","t","a","l"," ","D","u","e",":"," ","$","1",",","2","3","4",".","5","6"," ","$","9","9","9",".","0","0">>,
      \* [Total Due: $abc]
      <<"T","o","t","a","l"," ","D","u","e",":"," ","$","a","b","c">>,
      \* [$,]
      <<"$",",">>,
      \* [Fee $,. due]
      <<"F","e","e"," ","$",",","."," ","d","u","e">>,
      \* [$0.00]
      <<"$","0",".","0","0">>,
      \* [$0.125]
      <<"$","0",".","1","2","5">>,
      \* [Subtotal: $12. $,]
      <<"S","u","b","t","o","t","a","l",":"," ","$","1","2","."," ","$",",">>,
      \* [No charge]
      <<"N","o"," ","c","h","a","r","g","e">>,
      \* [$1,2.5.7]
      <<"$","1",",","2",".","5",".","7">>,
      \* [USD 5.00]
      <<"U","S","D"," ","5",".","0","0">>,
      \* [$3 $x]
      <<"$","3"," ","$","x">>,
      \* [$$4.50 ]
      <<"$","$","4",".","5","0"," ">> }

\* candidate vendor lines: short, padded, and one per stoplist word
VendorLines ==
    {   \* [  Acme Corp  ]
      <<" "," ","A","c","m","e"," ","C","o","r","p"," "," ">>,
      \* [ACME]
      <<"A","C","M","E">>,
      \* [Ab]
      <<"A","b">>,
      \* [   ]
      <<" "," "," ">>,
      <<>>,
      \* [abc ]
      <<"a","b","c"," ">>,
      \* [<tab>XYZ Ltd]
      <<"\t","X","Y","Z"," ","L","t","d">>,
      \* [Unity Bank]
      <<"U","n","i","t","y"," ","B","a","n","k">>,
      \* [Invoice #1]
      <<"I","n","v","o","i","c","e"," ","#","1">>,
      \* [Bill #1]
      <<"B","i","l","l"," ","#","1">>,
      \* [Date #1]
      <<"D","a","t","e"," ","#","1">>,
      \* [Phone #1]
      <<"P","h","o","n","e"," ","#","1">>,
      \* [Email #1]
      <<"E","m","a","i","l"," ","#","1">>,
      \* [Address #1]
      <<"A","d","d","r","e","s","s"," ","#","1">>,
      \* [Description #1]
      <<"D","e","s","c","r","i","p","t","i","o","n"," ","#","1">>,
      \* [Qty #1]
      <<"Q","t","y"," ","#","1">>,
      \* [Unit #1]
      <<"U","n","i","t"," ","#","1">>,
      \* [Total #1]
      <<"T","o","t","a","l"," ","#","1">>,
      \* [Please #1]
      <<"P","l","e","a","s","e"," ","#","1">>,
      \* [Share #1]
      <<"S","h","a","r","e"," ","#","1">>,
      \* [Form #1]
      <<"F","o","r","m"," ","#","1">>,
      \* [Within #1]
      <<"W","i","t","h","i","n"," ","#","1">>,
      \* [Hours #1]
      <<"H","o","u","r","s"," ","#","1">>,
      \* [Recent #1]
      <<"R","e","c","e","n","t"," ","#","1">>,
      \* [Infusion #1]
      <<"I","n","f","u","s","i","o","n"," ","#","1">> }

LineSets == { NumberLines, DateLines, StatusLines, AmountLines, VendorLines }

\* the sequences of at most n elements of S
SeqsUpTo(S, n) == UNION { [1..k -> S] : k \in 0..n }

\* what page.extract_text() gives for a page: its text, or a failure
PageOk(text) == [ok |-> TRUE, text |-> text]
PageFails == [ok |-> FALSE, text |-> << >>]

\* a file on disk: its path, whether open() and PdfReader accept it, and
\* its pages
Pdf(path, pages) == [path |-> path, readable |-> TRUE, pages |-> pages]
NotAPdf(path) == [path |-> path, readable |-> FALSE, pages |-> << >>]

PathGen == <<"i","n","p","u","t","/","g","e","n",".","p","d","f">>
PathA == <<"i","n","p","u","t","/","a",".","p","d","f">>
PathB == <<"i","n","p","u","t","/","b",".","p","d","f">>
PathC == <<"i","n","p","u","t","/","c",".","p","d","f">>
PathD == <<"i","n","p","u","t","/","d",".","p","d","f">>
PathE == <<"i","n","p","u","t","/","e",".","p","d","f">>
PathF == <<"i","n","p","u","t","/","f",".","p","d","f">>
PathG == <<"i","n","p","u","t","/","g",".","p","d","f">>
PathH == <<"i","n","p","u","t","/","h",".","p","d","f">>
PathI == <<"i","n","p","u","t","/","i",".","p","d","f">>
PathJ == <<"i","n","p","u","t","/","j",".","p","d","f">>

TextA ==
    \* [Acme Corp | Invoice Number: INV-2024-001 | Invoice Date: 2024-01-15 | Total Due: $1,234.50 | Due Date: 2024-02-15 | Payment Status: UNPAID]
    <<"A","c","m","e"," ","C","o","r","p","\n","I","n","v","o","i","c","e"," ","N","u","m","b","e","r",":"," ","I","N","V","-","2","0","2","4","-","0","0","1","\n","I","n","v","o","i","c","e"," ","D","a","t","e",":"," ","2","0","2","4","-","0","1","-","1","5","\n","T","o","t","a","l"," ","D","u","e",":"," ","$","1",",","2","3","4",".","5","0","\n","D","u","e"," ","D","a","t","e",":"," ","2","0","2","4","-","0","2","-","1","5","\n","P","a","y","m","e","n","t"," ","S","t","a","t","u","s",":"," ","U","N","P","A","I","D">>
TextC ==
    \* [Invoice | Total]
    <<"I","n","v","o","i","c","e","\n","T","o","t","a","l">>
TextD ==
    \* [Total: $0.00]
    <<"T","o","t","a","l",":"," ","$","0",".","0","0">>
TextE ==
    \* [Acme Corp]
    <<"A","c","m","e"," ","C","o","r","p">>
TextF ==
    \* [Invoice Number: | Total]
    <<"I","n","v","o","i","c","e"," ","N","u","m","b","e","r",":","\n","T","o","t","a","l">>
TextG ==
    \* [Total: $0.125]
    <<"T","o","t","a","l",":"," ","$","0",".","1","2","5">>
TextH ==
    \* [Globex LLC | Amount $999.00]
    <<"G","l","o","b","e","x"," ","L","L","C","\n","A","m","o","u","n","t"," ","$","9","9","9",".","0","0">>

\* the documents the mail step can hand over in a run of process_invoices.
\* Their amounts are multiples of 1/8, which the float type holds exactly, so
\* that the exact decimals of the model round as the floats do.
InboxDocs ==
    { Pdf(PathA, << PageOk(TextA) >>),
      NotAPdf(PathB),
      Pdf(PathC, << PageOk(TextC) >>),
      Pdf(PathD, << PageOk(TextD) >>),
      Pdf(PathE, << PageOk(TextE) >>),
      Pdf(PathF, << PageOk(TextF) >>),
      Pdf(PathG, << PageOk(TextG) >>),
      Pdf(PathH, << PageOk(TextH) >>),
      Pdf(PathI, << PageOk(TextH), PageFails >>),
      Pdf(PathJ, << PageOk(TextE) >>) }

\* documents whose reading stops part-way or that have several or no pages
OddDocs ==
    { Pdf(PathA, << PageOk(TextA), PageFails >>),
      Pdf(PathA, << PageFails, PageOk(TextA) >>),
      Pdf(PathA, << >>),
      Pdf(PathH, << PageOk(TextE), PageOk(TextA) >>) }

\* the documents extract_invoice_data is applied to on its own
ExtractDocs ==
    InboxDocs \cup OddDocs \cup
    { Pdf(PathGen, << PageOk(Join(ls, "\n")) >>) :
        ls \in UNION { SeqsUpTo(S, MaxLines) : S \in LineSets } }

(***************************************************************************)
(* extract_invoice_data (src/main.py 51-156).                              *)
(***************************************************************************)
\* Path(pdf_path).name: the last component of the path
PathName(path) ==
    LET parts == Split(path, "/") IN parts[Len(parts)]

\* lines 61-63: every page's text followed by a line break
RECURSIVE ConcatPages(_)
ConcatPages(pages) ==
    IF Len(pages) = 0 THEN << >>
    ELSE Head(pages).text \o << "\n" >> \o ConcatPages(Tail(pages))

\* ReadPdf with a page that gives no text passed over instead of failing
ReadPdfSkipsBadPages(doc) ==
    IF ~doc.readable
    THEN [exc |-> TRUE, text_content |-> << >>]
    ELSE [exc |-> FALSE,
          text_content |-> ConcatPages(SelectSeq(doc.pages, LAMBDA pg : pg.ok))]

\* lines 57-63: open the file, read it as a PDF, collect the text of the
\* pages; any step may raise
ReadPdf(doc) ==
    IF ~doc.readable \/ \E i \in 1..Len(doc.pages) : ~doc.pages[i].ok
    THEN [exc |-> TRUE, text_content |-> << >>]
    ELSE [exc |-> FALSE, text_content |-> ConcatPages(doc.pages)]

\* lines 66-144: the record built from the text
ScanText(text_content, pdf_path) ==
    LET lines == Split(text_content, "\n")
    IN  [invoice_number |-> InvoiceNumber(lines),
         vendor_name    |-> VendorName(lines),
         invoice_date   |-> InvoiceDate(lines),
         invoice_amount |-> InvoiceAmount(lines),
         due_date       |-> DueDate(lines),
         payment_status |-> PaymentStatus(lines),
         file_path      |-> PyStr(PathName(pdf_path))]

\* TryBlock with the record kept between calls: a field the text does not
\* give keeps the value the previous call found
TryBlockKeepsLastRecord(doc) ==
    LET r == ReadPdf(doc)
    IN  IF r.exc THEN [exc |-> TRUE, value |-> PyNone]
        ELSE LET new == ScanText(r.text_content, doc.path)
             IN  [exc |-> FALSE,
                  value |-> IF invoice_data = PyNone THEN new
                            ELSE [f \in DOMAIN new |->
                                    IF new[f] = PyNone THEN invoice_data[f]
                                    ELSE new[f]]]

\* lines 53-144: the body of the try statement
TryBlock(doc) ==
    LET r == ReadPdf(doc)
    IN  IF r.exc THEN [exc |-> TRUE, value |-> PyNone]
        ELSE [exc |-> FALSE, value |-> ScanText(r.text_content, doc.path)]

\* ExceptHandler with the exception raised again instead of answered
ExceptHandlerReraises(pdf_path) ==
    [raised |-> TRUE, value |-> PyNone]

\* lines 146-156: the except clause returns a record of its own
ExceptHandler(pdf_path) ==
    [raised |-> FALSE,
     value  |-> [invoice_number |-> PyNone,
                 vendor_name    |-> PyNone,
                 invoice_date   |-> PyNone,
                 invoice_amount |-> PyNone,
                 due_date       |-> PyNone,
                 payment_status |-> PyNone,
                 file_path      |-> PyStr(PathName(pdf_path))]]

\* the call as its caller sees it: whether it raised, and what it returned
ExtractInvoiceData(doc) ==
    LET r == TryBlock(doc)
    IN  IF r.exc THEN ExceptHandler(doc.path)
        ELSE [raised |-> FALSE, value |-> r.value]

(***************************************************************************)
(* process_invoices (src/main.py 158-219).                                 *)
(***************************************************************************)
\* lines 33-49: what the mail step hands back for a result of the
\* downloader, or for its raising
DownloadInvoicesFromGmail(res) ==
    IF res.raised THEN << >>
    ELSE IF res.success THEN res.downloaded_files
    ELSE << >>

\* the results GmailDownloader.download_invoices can give, and its raising
DownloadResults ==
    { [raised |-> FALSE, success |-> TRUE, downloaded_files |-> fs] :
        fs \in SeqsUpTo(InboxDocs, MaxFiles) }
    \cup { [raised |-> FALSE, success |-> FALSE, downloaded_files |-> << >>],
           [raised |-> TRUE, success |-> FALSE, downloaded_files |-> << >>] }

\* HasSomeData with the file name counted as extracted data
HasSomeDataAnyField(invoice) ==
    \E f \in DOMAIN invoice : Truthy(invoice[f])

\* line 181: only include if we extracted some data
HasSomeData(invoice) ==
    Truthy(invoice.invoice_number) \/ Truthy(invoice.invoice_amount)
        \/ Truthy(invoice.vendor_name)

\* line 202: total_amount, the sum over the items whose amount is truthy
RECURSIVE TotalAmount(_)
TotalAmount(list) ==
    IF Len(list) = 0 THEN PyFloat(0, 0)
    ELSE IF Truthy(Head(list).invoice_amount)
    THEN FloatAdd(Head(list).invoice_amount, TotalAmount(Tail(list)))
    ELSE TotalAmount(Tail(list))

\* UniqueVendors counting the records with a vendor, not the vendors
UniqueVendorsCountsRows(list) ==
    Cardinality({ j \in 1..Len(list) : Truthy(list[j].vendor_name) })

\* line 204: unique_vendors, the size of the set of truthy vendor names
UniqueVendors(list) ==
    Cardinality({ list[i].vendor_name.v :
                    i \in { j \in 1..Len(list) : Truthy(list[j].vendor_name) } })

\* lines 201-208: summary_data
SummaryData(list) ==
    << [Metric |-> "Total Invoices", Value |-> PyInt(Len(list))],
       [Metric |-> "Total Amount",
        Value  |-> PyStr(FormatCurrency(TotalAmount(list)))],
       [Metric |-> "Unique Vendors", Value |-> PyInt(UniqueVendors(list))] >>

NoDoc == NotAPdf(<< >>)

\* before connect_to_gmail: no connection object yet
NoConnection ==
    [state |-> "none", opened |-> FALSE, closed |-> FALSE, logged_out |-> FALSE]

(***************************************************************************)
(* A run of process_invoices.                                              *)
(***************************************************************************)
Init ==
    /\ pc = "start"
    /\ downloaded_files = << >>
    /\ pdf_file = NoDoc
    /\ invoice_data = PyNone
    /\ raised = FALSE
    /\ extracted = << >>
    /\ invoice_data_list = << >>
    /\ report = PyNone
    /\ result = PyNone
    /\ mail = NoConnection
    /\ email_ids = 0
    /\ exc = FALSE

\* lines 165-172: step 1, and the return when nothing was downloaded
Download ==
    /\ pc = "start"
    /\ \E res \in DownloadResults :
          LET files == DownloadInvoicesFromGmail(res)
          IN  /\ downloaded_files' = files
              /\ pc' = IF Len(files) = 0 THEN "no_files" ELSE "process"
              /\ result' = res
    /\ UNCHANGED << pdf_file, invoice_data, raised, extracted,
                    invoice_data_list, report >>
    /\ UNCHANGED mailvars

\* lines 178-182: one iteration of the loop over downloaded_files
ProcessOne ==
    /\ pc = "process"
    /\ Len(extracted) < Len(downloaded_files)
    /\ LET doc == downloaded_files[Len(extracted) + 1]
           r   == ExtractInvoiceData(doc)
       IN  /\ pdf_file' = doc
           /\ IF r.raised
              THEN /\ raised' = TRUE
                   /\ pc' = "crashed"
                   /\ UNCHANGED << invoice_data, extracted, invoice_data_list >>
              ELSE /\ invoice_data' = r.value
                   /\ extracted' = Append(extracted, r.value)
                   /\ invoice_data_list' =
                         IF HasSomeData(r.value)
                         THEN Append(invoice_data_list, r.value)
                         ELSE invoice_data_list
                   /\ UNCHANGED << raised, pc >>
    /\ UNCHANGED << downloaded_files, report, result >>
    /\ UNCHANGED mailvars

\* lines 184-186: the return when no record was kept
NoData ==
    /\ pc = "process"
    /\ Len(extracted) = Len(downloaded_files)
    /\ Len(invoice_data_list) = 0
    /\ pc' = "no_data"
    /\ UNCHANGED << downloaded_files, pdf_file, invoice_data, raised,
                    extracted, invoice_data_list, report, result >>
    /\ UNCHANGED mailvars

\* WriteReport moved into the loop: a workbook after every kept record
WriteReportInsideLoop ==
    /\ pc = "process"
    /\ Len(invoice_data_list) > 0
    /\ report # [Invoice_Data |-> invoice_data_list,
                 Summary      |-> SummaryData(invoice_data_list)]
    /\ report' = [Invoice_Data |-> invoice_data_list,
                  Summary      |-> SummaryData(invoice_data_list)]
    /\ pc' = IF Len(extracted) = Len(downloaded_files) THEN "completed" ELSE pc
    /\ UNCHANGED << downloaded_files, pdf_file, invoice_data, raised,
                    extracted, invoice_data_list, result >>
    /\ UNCHANGED mailvars

\* lines 188-211: step 3, the workbook with its two sheets
WriteReport ==
    /\ pc = "process"
    /\ Len(extracted) = Len(downloaded_files)
    /\ Len(invoice_data_list) > 0
    /\ report' = [Invoice_Data |-> invoice_data_list,
                  Summary      |-> SummaryData(invoice_data_list)]
    /\ pc' = "completed"
    /\ UNCHANGED << downloaded_files, pdf_file, invoice_data, raised,
                    extracted, invoice_data_list, result >>
    /\ UNCHANGED mailvars

Next == Download \/ ProcessOne \/ NoData \/ WriteReport

Spec == Init /\ [][Next]_vars

(***************************************************************************)
(* extract_invoice_data called on its own, on one document.                *)
(***************************************************************************)
InitExtract ==
    /\ pc = "call"
    /\ downloaded_files = << >>
    /\ pdf_file \in ExtractDocs
    /\ invoice_data = PyNone
    /\ raised = FALSE
    /\ extracted = << >>
    /\ invoice_data_list = << >>
    /\ report = PyNone
    /\ result = PyNone
    /\ mail = NoConnection
    /\ email_ids = 0
    /\ exc = FALSE

CallExtract ==
    /\ pc = "call"
    /\ LET r == ExtractInvoiceData(pdf_file)
       IN  /\ raised' = r.raised
           /\ invoice_data' = r.value
    /\ pc' = "returned"
    /\ UNCHANGED << downloaded_files, pdf_file, extracted, invoice_data_list,
                    report, result >>
    /\ UNCHANGED mailvars

NextExtract == CallExtract

SpecExtract == InitExtract /\ [][NextExtract]_vars

(***************************************************************************)
(* GmailDownloader.download_invoices (email_downloader.py), step by step.  *)
(* The connection is an imaplib.IMAP4_SSL object: mail.state follows the   *)
(* IMAP protocol states NONAUTH, AUTH, SELECTED and LOGOUT; opened is set  *)
(* when connect_to_gmail returns the object, closed and logged_out when    *)
(* mail.close() and mail.logout() have returned.  A command sent in a      *)
(* state that allows it is taken to succeed at the two disconnect sites;   *)
(* CLOSE is allowed in SELECTED only, LOGOUT in every state.               *)
(***************************************************************************)
MaxEmails == 2

\* line 58, imaplib.IMAP4_SSL(...): the connection right after the greeting
Greeted ==
    [state |-> "NONAUTH", opened |-> FALSE, closed |-> FALSE,
     logged_out |-> FALSE]

\* line 61, mail.login(...), and line 64, the object handed to the caller
LoggedIn(m) == [m EXCEPT !.state = "AUTH", !.opened = TRUE]

\* line 77, mail.select('INBOX'), answered OK
Selected(m) == [m EXCEPT !.state = "SELECTED"]

\* mail.close() (lines 311, 324): refused outside SELECTED; the object falls
\* back to AUTH whether or not the command went through
MailClose(m) ==
    IF m.state = "SELECTED"
    THEN [exc |-> FALSE, mail |-> [m EXCEPT !.state = "AUTH", !.closed = TRUE]]
    ELSE [exc |-> TRUE, mail |-> m]

\* mail.logout() (lines 312, 325)
MailLogout(m) ==
    [exc |-> FALSE, mail |-> [m EXCEPT !.state = "LOGOUT", !.logged_out = TRUE]]

\* lines 311-312 and 324-325: close, then logout unless close raised
CloseAndLogout(m) ==
    LET c == MailClose(m)
    IN  IF c.exc THEN c ELSE MailLogout(c.mail)

\* what connect_to_gmail can meet
ConnectOutcomes == { "refused", "login_failed", "connected" }

\* what search_invoices can meet: the mailbox is not selected; it is
\* selected and the search raises or is not OK; the search returns
SearchOutcomes == { "select_fails", "search_fails", "found" }

\* lines 294-301 and 316-321: the result of a call that went through
SuccessResult(n, files) ==
    [raised |-> FALSE, success |-> TRUE, emails_found |-> n,
     files_downloaded |-> Len(files), downloaded_files |-> files]

\* lines 330-336: the result of a call that met an exception
FailureResult ==
    [raised |-> FALSE, success |-> FALSE, emails_found |-> 0,
     files_downloaded |-> 0, downloaded_files |-> << >>]

InitDownload ==
    /\ pc = "connect"
    /\ downloaded_files = << >>
    /\ pdf_file = NoDoc
    /\ invoice_data = PyNone
    /\ raised = FALSE
    /\ extracted = << >>
    /\ invoice_data_list = << >>
    /\ report = PyNone
    /\ result = PyNone
    /\ mail = NoConnection
    /\ email_ids = 0
    /\ exc = FALSE

\* line 288 with connect_to_gmail, lines 52-68: any exception becomes an
\* EmailError, which the outer handler of download_invoices catches
ConnectToGmail ==
    /\ pc = "connect"
    /\ \E outcome \in ConnectOutcomes :
          CASE outcome = "refused" ->
                 /\ mail' = NoConnection
                 /\ exc' = TRUE
                 /\ pc' = "outer_except"
            [] outcome = "login_failed" ->
                 /\ mail' = Greeted
                 /\ exc' = TRUE
                 /\ pc' = "outer_except"
            [] outcome = "connected" ->
                 /\ mail' = LoggedIn(Greeted)
                 /\ exc' = exc
                 /\ pc' = "search"
    /\ UNCHANGED << downloaded_files, pdf_file, invoice_data, raised,
                    extracted, invoice_data_list, report, result, email_ids >>

\* line 292 with search_invoices, lines 71-134: per-email errors are skipped
\* (125-127), any other exception is raised again as EmailError (132-134)
SearchInvoices ==
    /\ pc = "search"
    /\ \E outcome \in SearchOutcomes : \E n \in 0..MaxEmails :
          CASE outcome = "select_fails" ->
                 /\ n = 0
                 /\ mail' = mail
                 /\ email_ids' = email_ids
                 /\ exc' = TRUE
                 /\ pc' = "inner_except"
            [] outcome = "search_fails" ->
                 /\ n = 0
                 /\ mail' = Selected(mail)
                 /\ email_ids' = email_ids
                 /\ exc' = TRUE
                 /\ pc' = "inner_except"
            [] outcome = "found" ->
                 /\ mail' = Selected(mail)
                 /\ email_ids' = n
                 /\ exc' = exc
                 /\ pc' = IF n = 0 THEN "no_emails" ELSE "download"
    /\ UNCHANGED << downloaded_files, pdf_file, invoice_data, raised,
                    extracted, invoice_data_list, report, result >>

\* lines 294-301: `if not invoice_email_ids: return {...}`
ReturnNoEmails ==
    /\ pc = "no_emails"
    /\ result' = SuccessResult(0, << >>)
    /\ pc' = "download_returned"
    /\ UNCHANGED << downloaded_files, pdf_file, invoice_data, raised,
                    extracted, invoice_data_list, report >>
    /\ UNCHANGED mailvars

\* lines 304-308 with download_attachments, lines 156-195, and
\* mark_emails_as_read, lines 266-280: an email that cannot be fetched or
\* saved adds no file (188-190); an exception outside the per-email handler
\* is raised again as EmailError (195-197); mark_emails_as_read lets no
\* exception out and sends no command that changes the protocol state
DownloadAttachments ==
    /\ pc = "download"
    /\ \E fails \in BOOLEAN : \E files \in SeqsUpTo(InboxDocs, MaxFiles) :
          IF fails
          THEN /\ files = << >>
               /\ downloaded_files' = downloaded_files
               /\ exc' = TRUE
               /\ pc' = "inner_except"
          ELSE /\ downloaded_files' = files
               /\ exc' = exc
               /\ pc' = "disconnect"
    /\ UNCHANGED << pdf_file, invoice_data, raised, extracted,
                    invoice_data_list, report, result, mail, email_ids >>

\* lines 310-321: close, logout, and the result of a completed download
Disconnect ==
    /\ pc = "disconnect"
    /\ LET d == CloseAndLogout(mail)
       IN  /\ mail' = d.mail
           /\ IF d.exc
              THEN /\ exc' = TRUE
                   /\ pc' = "inner_except"
                   /\ result' = result
              ELSE /\ exc' = exc
                   /\ pc' = "download_returned"
                   /\ result' = SuccessResult(email_ids, downloaded_files)
    /\ UNCHANGED << downloaded_files, pdf_file, invoice_data, raised,
                    extracted, invoice_data_list, report, email_ids >>

\* lines 323-326: `except Exception as e: mail.close(); mail.logout();
\* raise e`; an exception of close or logout leaves the handler in place of e
InnerExcept ==
    /\ pc = "inner_except"
    /\ mail' = CloseAndLogout(mail).mail
    /\ pc' = "outer_except"
    /\ UNCHANGED << downloaded_files, pdf_file, invoice_data, raised,
                    extracted, invoice_data_list, report, result, email_ids,
                    exc >>

\* lines 328-336: the outer handler returns the failure result
OuterExcept ==
    /\ pc = "outer_except"
    /\ result' = FailureResult
    /\ pc' = "download_returned"
    /\ UNCHANGED << downloaded_files, pdf_file, invoice_data, raised,
                    extracted, invoice_data_list, report >>
    /\ UNCHANGED mailvars

NextDownload ==
    \/ ConnectToGmail
    \/ SearchInvoices
    \/ ReturnNoEmails
    \/ DownloadAttachments
    \/ Disconnect
    \/ InnerExcept
    \/ OuterExcept

SpecDownload == InitDownload /\ [][NextDownload]_vars

(***************************************************************************)
(* Vocabulary of the properties.                                           *)
(***************************************************************************)
Returned == pc = "returned"

\* reading the document fails at some point: the file is not a PDF, or a
\* page gives no text
ReadFails(doc) ==
    ~doc.readable \/ \E i \in 1..Len(doc.pages) : ~doc.pages[i].ok

\* the line sequence of a document that reads
LinesOf(doc) == Split(ConcatPages(doc.pages), "\n")

\* the name of the file of a path: what follows its last "/"
FileNameOf(path) ==
    LET slashes == {i \in 1..Len(path) : path[i] = "/"}
        last    == IF slashes = {} THEN 0
                   ELSE CHOOSE i \in slashes : \A j \in slashes : j <= i
    IN  SubSeq(path, last + 1, Len(path))

\* the topmost of a non-empty set of line numbers
Topmost(idx) == CHOOSE i \in idx : \A j \in idx : i <= j

\* everything after the first ":" of a line that has one
AfterFirstColon(line) ==
    LET k == CHOOSE i \in 1..Len(line) :
                 line[i] = ":" /\ \A j \in 1..(i - 1) : line[j] # ":"
    IN  SubSeq(line, k + 1, Len(line))

\* None without a line containing the label; else the text after the first
\* colon of the topmost such line, trimmed
TextAfterFirstColon(lines, label) ==
    LET HasLabel(line) == Contains(line, label)
    IN  IF \A i \in 1..Len(lines) : ~HasLabel(lines[i]) THEN PyNone
        ELSE PyStr(Strip(AfterFirstColon(
                 lines[Topmost({i \in 1..Len(lines) : HasLabel(lines[i])})])))

RecordFields ==
    { "invoice_number", "vendor_name", "invoice_date", "invoice_amount",
      "due_date", "payment_status", "file_path" }

StringFields ==
    { "invoice_number", "vendor_name", "invoice_date", "due_date",
      "payment_status" }

(***************************************************************************)
(* C1.  extract_invoice_data never raises to its caller: for every         *)
(* document, readable or not, it returns a record with exactly the seven   *)
(* fields, the file name always set, every other field None or a value of  *)
(* its kind (a str, and a non-negative float for the amount).              *)
(***************************************************************************)
C1_ExtractNeverRaises ==
    Returned =>
        /\ ~raised
        /\ DOMAIN invoice_data = RecordFields
        /\ invoice_data.file_path = PyStr(FileNameOf(pdf_file.path))
        /\ Len(invoice_data.file_path.v) > 0
        /\ \A f \in StringFields : invoice_data[f].t \in {"None", "str"}
        /\ invoice_data.invoice_amount.t \in {"None", "float"}
        /\ invoice_data.invoice_amount.t = "float"
              => invoice_data.invoice_amount.m >= 0

\* a document whose second page cannot be read has been answered with a record
C1_Witness ==
    /\ Returned
    /\ pdf_file.readable
    /\ ReadFails(pdf_file)
    /\ ~raised
    /\ invoice_data.file_path = PyStr(FileNameOf(pdf_file.path))

(***************************************************************************)
(* C3.  invoice_number is None if no line contains "Invoice Number:";      *)
(* otherwise it is the text after the first colon of the topmost line      *)
(* containing the label, trimmed -- also when that line has further colons.*)
(***************************************************************************)
C3_InvoiceNumberIsTextAfterFirstColon ==
    (Returned /\ ~ReadFails(pdf_file)) =>
        invoice_data.invoice_number =
            TextAfterFirstColon(LinesOf(pdf_file), LabelInvoiceNumber)

(***************************************************************************)
(* C5.  With a line containing "Payment Status:", payment_status comes     *)
(* from the value after the colon of the topmost such line, trimmed:       *)
(* "Unpaid" if it contains "unpaid" in any case, else "Paid" if it         *)
(* contains "paid" in any case, else the value itself.                     *)
(***************************************************************************)
C5_PaymentStatusFromValueAfterColon ==
    LET lines == LinesOf(pdf_file)
        v     == TextAfterFirstColon(lines, LabelPaymentStatus)
    IN  (Returned /\ ~ReadFails(pdf_file) /\ v # PyNone) =>
            invoice_data.payment_status =
                IF Contains(Lower(v.v), WordUnpaid) THEN PyStr(StatusUnpaid)
                ELSE IF Contains(Lower(v.v), WordPaid) THEN PyStr(StatusPaid)
                ELSE v

(***************************************************************************)
(* C7.  invoice_date and due_date are each None without a line containing  *)
(* their label ("Invoice Date:", "Due Date:"), and otherwise the text      *)
(* after the colon of the topmost such line, trimmed and otherwise         *)
(* unmodified -- also when the date holds a colon (a time of day).         *)
(***************************************************************************)
C7_DatesAreTextAfterColon ==
    (Returned /\ ~ReadFails(pdf_file)) =>
        /\ invoice_data.invoice_date =
              TextAfterFirstColon(LinesOf(pdf_file), LabelInvoiceDate)
        /\ invoice_data.due_date =
              TextAfterFirstColon(LinesOf(pdf_file), LabelDueDate)

(***************************************************************************)
(* C9.  "Not found" is None, never the empty string: payment_status is     *)
(* None when no line contains "Payment Status:", and none of               *)
(* invoice_number, invoice_date, due_date, payment_status is ever "".      *)
(***************************************************************************)
C9_NotFoundIsNoneNeverEmpty ==
    Returned =>
        /\ ((\A i \in 1..Len(LinesOf(pdf_file)) :
                ~Contains(LinesOf(pdf_file)[i], LabelPaymentStatus))
             => invoice_data.payment_status = PyNone)
        /\ \A f \in {"invoice_number", "invoice_date", "due_date",
                     "payment_status"} :
              invoice_data[f] # PyStr(<< >>)

(***************************************************************************)
(* C4.  invoice_amount: lines are scanned top to bottom; on a line with a  *)
(* "$" only the last currency match is parsed, thousands separators        *)
(* removed; the first line whose last match parses gives the amount; a     *)
(* line without a match or whose last match does not parse is skipped;     *)
(* with no such line the amount is None.  "Total Due: $1,234.56 $999.00"   *)
(* gives 999.00 and "Total Due: $abc" is skipped.                          *)
(***************************************************************************)
LineTwoAmounts == <<"T","o","t","a","l"," ","D","u","e",":"," ","$","1",",","2","3","4",".","5","6"," ","$","9","9","9",".","0","0">>
LineNoAmount == <<"T","o","t","a","l"," ","D","u","e",":"," ","$","a","b","c">>

\* the value of the last currency match of a line, or ValueError
LastAmountOf(line) ==
    LET amounts == FindAmounts(line)
    IN  IF ~Contains(line, << "$" >>) \/ Len(amounts) = 0 THEN ValueError
        ELSE ParseFloat(Remove(amounts[Len(amounts)], ","))

C4_AmountIsLastMatchOfFirstParsingLine ==
    (Returned /\ ~ReadFails(pdf_file)) =>
        LET lines == LinesOf(pdf_file)
            Yields(line) == LastAmountOf(line) # ValueError
        IN  /\ IF \A i \in 1..Len(lines) : ~Yields(lines[i])
               THEN invoice_data.invoice_amount = PyNone
               ELSE invoice_data.invoice_amount =
                        LastAmountOf(
                            lines[Topmost({i \in 1..Len(lines) : Yields(lines[i])})])
            /\ (Len(lines) > 0 /\ lines[1] = LineTwoAmounts)
                  => invoice_data.invoice_amount = PyFloat(999, 0)
            /\ (Len(lines) > 1 /\ lines[1] = LineNoAmount /\ Yields(lines[2]))
                  => invoice_data.invoice_amount = LastAmountOf(lines[2])

\* a line that does not parse was skipped and the two-amount line below it
\* gave its last amount
C4_Witness ==
    /\ Returned
    /\ ~ReadFails(pdf_file)
    /\ Len(LinesOf(pdf_file)) > 1
    /\ LinesOf(pdf_file)[1] = LineNoAmount
    /\ LinesOf(pdf_file)[2] = LineTwoAmounts
    /\ invoice_data.invoice_amount = PyFloat(999, 0)

(***************************************************************************)
(* C6.  vendor_name is the topmost line that, trimmed, is longer than 3    *)
(* characters and whose lowercased text contains none of the 17 stoplist   *)
(* words; the value is that trimmed line; None if no line qualifies.       *)
(***************************************************************************)
Stoplist ==
    { <<"i","n","v","o","i","c","e">>,
      <<"b","i","l","l">>,
      <<"d","a","t","e">>,
      <<"p","h","o","n","e">>,
      <<"e","m","a","i","l">>,
      <<"a","d","d","r","e","s","s">>,
      <<"d","e","s","c","r","i","p","t","i","o","n">>,
      <<"q","t","y">>,
      <<"u","n","i","t">>,
      <<"t","o","t","a","l">>,
      <<"p","l","e","a","s","e">>,
      <<"s","h","a","r","e">>,
      <<"f","o","r","m">>,
      <<"w","i","t","h","i","n">>,
      <<"h","o","u","r","s">>,
      <<"r","e","c","e","n","t">>,
      <<"i","n","f","u","s","i","o","n">> }

C6_VendorIsFirstLineOffStoplist ==
    (Returned /\ ~ReadFails(pdf_file)) =>
        LET lines == LinesOf(pdf_file)
            Qualifies(line) ==
                /\ Len(Strip(line)) > 3
                /\ \A w \in Stoplist : ~Contains(Lower(Strip(line)), w)
        IN  /\ Cardinality(Stoplist) = 17
            /\ IF \A i \in 1..Len(lines) : ~Qualifies(lines[i])
               THEN invoice_data.vendor_name = PyNone
               ELSE invoice_data.vendor_name =
                        PyStr(Strip(
                            lines[Topmost({i \in 1..Len(lines) : Qualifies(lines[i])})]))

\* a capitalised stoplist line was passed over and the padded line below it
\* became the vendor, trimmed
C6_Witness ==
    /\ Returned
    /\ ~ReadFails(pdf_file)
    /\ Len(LinesOf(pdf_file)) > 1
    /\ Contains(Lower(LinesOf(pdf_file)[1]), <<"i","n","f","u","s","i","o","n">>)
    /\ ~Contains(LinesOf(pdf_file)[1], <<"i","n","f","u","s","i","o","n">>)
    /\ invoice_data.vendor_name = PyStr(Strip(LinesOf(pdf_file)[2]))
    /\ Strip(LinesOf(pdf_file)[2]) # LinesOf(pdf_file)[2]

(***************************************************************************)
(* Vocabulary of the properties of process_invoices.                       *)
(***************************************************************************)
\* the record of a document that could not be read
AllNullRecord(doc) ==
    [invoice_number |-> PyNone, vendor_name |-> PyNone, invoice_date |-> PyNone,
     invoice_amount |-> PyNone, due_date |-> PyNone, payment_status |-> PyNone,
     file_path |-> PyStr(FileNameOf(doc.path))]

\* the three key fields of a record are all None
KeyFieldsAllNone(r) ==
    /\ r.invoice_number = PyNone
    /\ r.invoice_amount = PyNone
    /\ r.vendor_name = PyNone

Ended == pc \in {"no_files", "no_data", "completed"}

(***************************************************************************)
(* C2.  When reading a document fails, its record has all six extracted    *)
(* fields None and carries the document's file name; process_invoices      *)
(* goes on to every remaining document, and each document's record is the  *)
(* one its own content gives, whatever happened to the others.             *)
(***************************************************************************)
C2_FailedDocumentGivesNullRecordAndLoopGoesOn ==
    /\ pc # "crashed"
    /\ ~raised
    /\ Len(extracted) <= Len(downloaded_files)
    /\ \A i \in 1..Len(extracted) :
          /\ ReadFails(downloaded_files[i])
                => extracted[i] = AllNullRecord(downloaded_files[i])
          /\ ~ReadFails(downloaded_files[i])
                => extracted[i] =
                      ScanText(ConcatPages(downloaded_files[i].pages),
                               downloaded_files[i].path)
    /\ Ended => Len(extracted) = Len(downloaded_files)

\* a document whose second page fails was followed by one that gave data
C2_Witness ==
    /\ pc = "completed"
    /\ \E i \in 1..Len(extracted) : \E j \in (i + 1)..Len(extracted) :
          /\ downloaded_files[i].readable
          /\ ReadFails(downloaded_files[i])
          /\ extracted[i] = AllNullRecord(downloaded_files[i])
          /\ ~KeyFieldsAllNone(extracted[j])

(***************************************************************************)
(* C8.  No record whose invoice_number, invoice_amount and vendor_name are *)
(* all None is ever appended to the list handed to the report writer, nor  *)
(* appears in the report; so the record of an unreadable document never    *)
(* does.                                                                   *)
(***************************************************************************)
C8_NoAllNullRecordInReport ==
    /\ \A i \in 1..Len(invoice_data_list) :
          ~KeyFieldsAllNone(invoice_data_list[i])
    /\ report # PyNone =>
          \A i \in 1..Len(report.Invoice_Data) :
              ~KeyFieldsAllNone(report.Invoice_Data[i])

\* a report was written for a run in which a document could not be read
C8_Witness ==
    /\ pc = "completed"
    /\ \E i \in 1..Len(downloaded_files) : ReadFails(downloaded_files[i])
    /\ Len(report.Invoice_Data) < Len(downloaded_files)

(***************************************************************************)
(* C10.  The summary sheet has exactly three rows, in this order: Total    *)
(* Invoices = the number of emitted records (the rows of the data sheet);  *)
(* Total Amount = the sum of invoice_amount over the emitted records whose *)
(* amount is not None, written as currency; Unique Vendors = the number of *)
(* distinct vendor_name values that are not None.                          *)
(***************************************************************************)
RECURSIVE SumOfAmounts(_)
SumOfAmounts(rows) ==
    IF Len(rows) = 0 THEN PyFloat(0, 0)
    ELSE IF Head(rows).invoice_amount = PyNone THEN SumOfAmounts(Tail(rows))
    ELSE FloatAdd(SumOfAmounts(Tail(rows)), Head(rows).invoice_amount)

C10_SummaryRows ==
    pc = "completed" =>
        LET rows == report.Invoice_Data
            s    == report.Summary
            vendors == { rows[i].vendor_name : i \in 1..Len(rows) } \ { PyNone }
        IN  /\ rows = invoice_data_list
            /\ Len(s) = 3
            /\ s[1] = [Metric |-> "Total Invoices", Value |-> PyInt(Len(rows))]
            /\ s[2] = [Metric |-> "Total Amount",
                       Value  |-> PyStr(FormatCurrency(SumOfAmounts(rows)))]
            /\ s[3] = [Metric |-> "Unique Vendors",
                       Value  |-> PyInt(Cardinality(vendors))]

\* a report with a record without amount, a record without vendor, and two
\* records of one vendor
C10_Witness ==
    /\ pc = "completed"
    /\ \E i \in 1..Len(report.Invoice_Data) :
          report.Invoice_Data[i].invoice_amount = PyNone
    /\ \E i \in 1..Len(report.Invoice_Data) :
          report.Invoice_Data[i].vendor_name = PyNone
    /\ report.Summary[1].Value = PyInt(3)
    /\ report.Summary[3].Value = PyInt(1)

(***************************************************************************)
(* C11.  Extraction keeps no state across calls and depends on the         *)
(* document alone: in a run, two calls on the same document return the     *)
(* same record wherever they stand in the list and whatever was processed  *)
(* between them, and two documents with the same text get the same six     *)
(* extracted fields.                                                       *)
(***************************************************************************)
ExtractedFields == RecordFields \ { "file_path" }

C11_SameTextWitness ==
    /\ Len(extracted) >= 2
    /\ downloaded_files[1].path # downloaded_files[2].path
    /\ downloaded_files[1].pages = downloaded_files[2].pages
    /\ extracted[1].vendor_name = extracted[2].vendor_name
    /\ extracted[1].file_path # extracted[2].file_path

(***************************************************************************)
(* C12.  process_invoices ends without a report in exactly two situations, *)
(* returning normally in both: the mail step supplied no document (also    *)
(* when the download failed or raised), or no extracted record was kept    *)
(* for the report.  In every other run exactly one report is written, and  *)
(* only after every document of the list has been processed.               *)
(***************************************************************************)
\* the download did not succeed: it reported failure, or raised
DownloadFailed == result # PyNone /\ (result.raised \/ ~result.success)

C12_EndsAndReport ==
    /\ pc # "crashed"
    /\ ~raised
    /\ DownloadFailed => pc = "no_files"
    /\ pc = "no_files" =>
          Len(downloaded_files) = 0 /\ Len(extracted) = 0 /\ report = PyNone
    /\ pc = "no_data" =>
          /\ Len(downloaded_files) > 0
          /\ Len(extracted) = Len(downloaded_files)
          /\ Len(invoice_data_list) = 0
          /\ report = PyNone
    /\ pc = "completed" =>
          /\ Len(extracted) = Len(downloaded_files)
          /\ Len(invoice_data_list) > 0
          /\ report # PyNone
    /\ report # PyNone =>
          /\ pc = "completed"
          /\ Len(extracted) = Len(downloaded_files)
          /\ report.Invoice_Data = invoice_data_list
    /\ (pc = "process" /\ Len(extracted) = Len(downloaded_files)) =>
          report = PyNone

C12_NoDataWitness ==
    /\ pc = "no_data"
    /\ \E i \in 1..Len(downloaded_files) : ~ReadFails(downloaded_files[i])
    /\ report = PyNone

(***************************************************************************)
(* C13.  Every extracted record in which at least one of invoice_number,   *)
(* invoice_amount and vendor_name is not None becomes exactly one row of   *)
(* the data sheet, in processing order; none is dropped, also not a record *)
(* whose only non-null key field is an amount of 0 or an invoice number    *)
(* with an empty value.                                                    *)
(***************************************************************************)
\* the records with a non-null key field, in the order they were extracted
NonNullRecords == SelectSeq(extracted, LAMBDA r : ~KeyFieldsAllNone(r))

C13_EveryNonNullRecordIsOneRowInOrder ==
    /\ invoice_data_list = NonNullRecords
    /\ report # PyNone => report.Invoice_Data = NonNullRecords

\* the two records the claim names: an amount of 0 alone, an empty number alone
ZeroAmountOnly(r) ==
    /\ r.invoice_amount = PyFloat(0, 0)
    /\ r.invoice_number = PyNone
    /\ r.vendor_name = PyNone

EmptyNumberOnly(r) ==
    /\ r.invoice_number = PyStr(<< >>)
    /\ r.invoice_amount = PyNone
    /\ r.vendor_name = PyNone

\* a report was written and a zero-amount record is not among its rows
C13_ZeroAmountDropped ==
    /\ pc = "completed"
    /\ \E i \in 1..Len(extracted) : ZeroAmountOnly(extracted[i])
    /\ \A i \in 1..Len(report.Invoice_Data) :
          ~ZeroAmountOnly(report.Invoice_Data[i])

\* a report was written and an empty-number record is not among its rows
C13_EmptyNumberDropped ==
    /\ pc = "completed"
    /\ \E i \in 1..Len(extracted) : EmptyNumberOnly(extracted[i])
    /\ \A i \in 1..Len(report.Invoice_Data) :
          ~EmptyNumberOnly(report.Invoice_Data[i])

(***************************************************************************)
(* C14.  When download_invoices returns, every connection that was opened  *)
(* has been closed and logged out, on every return path (no invoice email  *)
(* found, download completed, search or download raised); the call never   *)
(* raises; the success flag of its result is false exactly when an         *)
(* exception occurred, and downloaded_files is then empty.                 *)
(***************************************************************************)
DownloadReturned == pc = "download_returned"

C14_ConnectionReleasedOnEveryReturn ==
    DownloadReturned =>
        /\ ~raised
        /\ result # PyNone
        /\ result.success = ~exc
        /\ exc => result.downloaded_files = << >>
        /\ mail.opened => (mail.closed /\ mail.logged_out)

\* the return for "no invoice emails found" leaves the mailbox selected
C14_NoEmailsLeavesConnectionOpen ==
    /\ DownloadReturned
    /\ result.success
    /\ result.emails_found = 0
    /\ mail.state = "SELECTED"
    /\ ~mail.closed
    /\ ~mail.logged_out

\* a failed select: close raises in the handler and logout is never called
C14_HandlerSkipsLogout ==
    /\ DownloadReturned
    /\ ~result.success
    /\ mail.opened
    /\ mail.state = "AUTH"
    /\ ~mail.logged_out

\* the paths on which the connection is released as the claim says
C14_ReleasedAfterDownload ==
    /\ DownloadReturned
    /\ mail.opened
    /\ mail.closed
    /\ mail.logged_out
    /\ result.success
    /\ Len(result.downloaded_files) > 0

\* everything the claim says but the release of the connection
C14_NeverRaisesAndFlagExact ==
    DownloadReturned =>
        /\ ~raised
        /\ result # PyNone
        /\ result.success = ~exc
        /\ exc => result.downloaded_files = << >>

=============================================================================
